---- MODULE Spec2Model ----
(***************************************************************************)
(* TempKlean: a model of src/TempKlean.py.                                 *)
(*                                                                         *)
(* The program measures two temporary directories, deletes the top-level   *)
(* entries of each, measures again and prints a report.  The model keeps   *)
(* the two directories as trees of depth two, the position of main, the    *)
(* locals of clean_temp_folder, the exception in flight and what was       *)
(* printed.  Another process may create files in either directory between  *)
(* any two steps of the program.                                           *)
(*                                                                         *)
(* Arithmetic on percentages is exact (rationals as numerator/denominator) *)
(* where the program uses binary floating point.                           *)
(***************************************************************************)
EXTENDS Integers, Sequences, FiniteSets, TLC

VARIABLES
    fs,                 \* the two directories: exists, ents (name -> entry)
    pc,                 \* position of the program
    temp_initial_size,  \* main: user_temp_initial_size, system_temp_initial_size
    temp_freed,         \* main: user_temp_freed, system_temp_freed
    outcome,            \* how each clean_temp_folder call returned
    clean,              \* locals of the running clean_temp_folder call
    pending,            \* exception propagating through main's finally
    log,                \* messages printed and acknowledgments received
    lastBars,           \* progress bars printed by the program's latest step
    writes,             \* files created so far by other processes
    probe               \* locals of a get_folder_size walk taken step by step

vars == <<fs, pc, temp_initial_size, temp_freed, outcome, clean, pending,
          log, lastBars, writes, probe>>

(***************************************************************************)
(* Bounds of the model.                                                    *)
(***************************************************************************)
MaxItems == 2
MaxSize == 2
MaxKids == 1
MaxWrites == 1
MaxDisk == 2

USER == 1
SYSTEM == 2
Targets == {USER, SYSTEM}

Sizes == 1..MaxSize
Names == 1..(MaxItems + MaxWrites)

(***************************************************************************)
(* Directory entries.  A file is locked when removing it fails (in use or  *)
(* protected).  A directory holds files; one of them may be read-only      *)
(* (removal fails until the bit is cleared) or locked.  A broken link is   *)
(* neither a file nor a directory for Path.is_file and Path.is_dir; a link *)
(* to a directory is a directory for Path.is_dir.                          *)
(***************************************************************************)
NoEntry == [kind |-> "none", size |-> 0, st |-> "ok", kids |-> <<>>]

Kid == [size : Sizes, st : {"ok", "readonly", "locked"}]

KidSeqs == UNION {[1..n -> Kid] : n \in 0..MaxKids}

FileEntries == [kind : {"file"}, size : Sizes, st : {"ok", "locked"}, kids : {<<>>}]

DirEntries == [kind : {"dir"}, size : {0}, st : {"ok"}, kids : KidSeqs]

LinkEntries == [kind : {"brokenlink", "dirlink"}, size : {0}, st : {"ok"}, kids : {<<>>}]

Entries == FileEntries \cup DirEntries \cup LinkEntries

RECURSIVE SumSeq(_)
SumSeq(s) == IF s = <<>> THEN 0 ELSE Head(s) + SumSeq(Tail(s))

RECURSIVE KidSizes(_)
KidSizes(kids) == IF kids = <<>> THEN <<>> ELSE <<Head(kids).size>> \o KidSizes(Tail(kids))

\* The names present in a directory, in the order iterdir and os.walk yield them.
RECURSIVE Present(_, _)
Present(ents, n) ==
    IF n > MaxItems + MaxWrites THEN <<>>
    ELSE (IF ents[n].kind = "none" THEN <<>> ELSE <<n>>) \o Present(ents, n + 1)

Listing(ents) == Present(ents, 1)

(***************************************************************************)
(* get_folder_size, lines 29-47.                                           *)
(***************************************************************************)
\* Lines 38-43: one file's contribution.  os.path.exists is false for a file
\* that is gone and getsize raises OSError for one that cannot be read; both
\* leave the total as it is.
FileContribution(present, readable, size) ==
    IF present /\ readable THEN size ELSE 0

\* os.walk over one top-level entry: a file is in filenames of the root; a
\* directory is walked and its files are in filenames of that directory; a
\* broken link is in filenames and os.path.exists is false for it; a link to
\* a directory is in dirnames and is not followed.
EntrySize(e) ==
    CASE e.kind = "file" -> FileContribution(TRUE, TRUE, e.size)
      [] e.kind = "dir" -> SumSeq(KidSizes(e.kids))
      [] e.kind = "brokenlink" -> FileContribution(FALSE, TRUE, 0)
      [] OTHER -> 0

RECURSIVE WalkTotal(_, _)
WalkTotal(ents, names) ==
    IF names = <<>> THEN 0
    ELSE EntrySize(ents[Head(names)]) + WalkTotal(ents, Tail(names))

get_folder_size(d) ==
    IF ~d.exists THEN 0 ELSE WalkTotal(d.ents, Listing(d.ents))

(***************************************************************************)
(* create_progress_bar, lines 64-80.  A percentage is the exact rational   *)
(* num/den, den > 0.                                                        *)
(***************************************************************************)
DefaultWidth == 30
TotalWidth == 40

\* int(x) for x = n/d, d > 0: truncation toward zero.
IntOf(n, d) == IF n >= 0 THEN n \div d ELSE -((-n) \div d)

\* len(char * n): a string repeated a negative number of times is empty.
Glyphs(n) == IF n > 0 THEN n ELSE 0

create_progress_bar(percentage, width) ==
    LET filled_width == IntOf(width * percentage.num, percentage.den * 100)
        empty_width == width - filled_width
        color == IF percentage.num < 25 * percentage.den THEN "BRIGHT_GREEN"
                 ELSE IF percentage.num < 50 * percentage.den THEN "YELLOW"
                 ELSE IF percentage.num < 75 * percentage.den THEN "BRIGHT_YELLOW"
                 ELSE "BRIGHT_RED"
    IN [width |-> width,
        filled_width |-> filled_width,
        empty_width |-> empty_width,
        filled |-> Glyphs(filled_width),
        empty |-> Glyphs(empty_width),
        color |-> color]

\* Lines 172, 179, 186: part / whole * 100, and 0 when whole is not positive.
Percentage(part, whole) ==
    IF whole > 0 THEN [num |-> part * 100, den |-> whole] ELSE [num |-> 0, den |-> 1]

\* Lines 161-188: the three bars of the report.
display_cleanup_results(user_temp_freed, system_temp_freed, user_temp_initial, system_temp_initial) ==
    LET total_freed == user_temp_freed + system_temp_freed
        total_initial == user_temp_initial + system_temp_initial
    IN << create_progress_bar(Percentage(user_temp_freed, user_temp_initial), DefaultWidth),
          create_progress_bar(Percentage(system_temp_freed, system_temp_initial), DefaultWidth),
          create_progress_bar(Percentage(total_freed, total_initial), TotalWidth) >>

\* get_disk_usage, lines 82-92: what psutil reports for the drive, or zeros
\* when psutil is missing or fails.
DiskUsages ==
    {<<0, 0, 0>>} \cup
    UNION {{<<total, used, total - used>> : used \in 0..total} : total \in 1..MaxDisk}

\* Lines 102-110: the panel is printed only when a total is known.
display_system_info(usage) ==
    IF usage[1] > 0
    THEN << create_progress_bar([num |-> usage[2] * 100, den |-> usage[1]], DefaultWidth) >>
    ELSE << >>

(***************************************************************************)
(* clean_temp_folder, lines 118-159.                                       *)
(***************************************************************************)
\* handle_remove_readonly, lines 112-116: when the path still exists the
\* read-only bit is cleared and the failed call is made once more; what
\* that call raises propagates out of rmtree.
\* Variant: the failed call is not made again.
NoRetry(pathExists, retrySucceeds) == "raise"

handle_remove_readonly(pathExists, retrySucceeds) ==
    IF pathExists /\ ~retrySucceeds THEN "raise" ELSE "return"

\* shutil.rmtree(item, onerror=handle_remove_readonly) over the files of a
\* directory: the files left when it stops (none when the tree was removed).
RECURSIVE RmTree(_)
RmTree(kids) ==
    IF kids = <<>> THEN <<>>
    ELSE IF Head(kids).st = "ok" THEN RmTree(Tail(kids))
    ELSE IF handle_remove_readonly(TRUE, Head(kids).st = "readonly") = "return"
         THEN RmTree(Tail(kids))
         ELSE kids

\* Lines 135-145 for one item: what is left of the entry and how the item
\* is counted.
\*   file:        unlink; PermissionError when the file is locked.
\*   dir:         rmtree; OSError when a file in it stays locked.
\*   dirlink:     is_dir is true, rmtree refuses a link and reports it to
\*                onerror as a failed os.path.islink; the retry of islink
\*                raises nothing, rmtree returns and the link stays.
\*   brokenlink,
\*   none:        neither is_file nor is_dir: no branch is taken.
VisitItem(e) ==
    CASE e.kind = "file" ->
           IF e.st = "locked" THEN [left |-> e, counted |-> "error"]
           ELSE [left |-> NoEntry, counted |-> "file"]
      [] e.kind = "dir" ->
           IF RmTree(e.kids) = <<>> THEN [left |-> NoEntry, counted |-> "folder"]
           ELSE [left |-> [e EXCEPT !.kids = RmTree(e.kids)], counted |-> "error"]
      [] e.kind = "dirlink" ->
           IF handle_remove_readonly(TRUE, TRUE) = "return"
           THEN [left |-> e, counted |-> "folder"]
           ELSE [left |-> e, counted |-> "error"]
      [] OTHER -> [left |-> e, counted |-> "nothing"]

RECURSIVE Without(_, _)
Without(names, items) ==
    IF names = <<>> THEN <<>>
    ELSE (IF \E i \in 1..Len(items) : items[i] = Head(names) THEN <<>> ELSE <<Head(names)>>)
         \o Without(Tail(names), items)

\* Variant: the loop also takes up the children that appeared since the listing.
Rescan(items, ents) == items \o Without(Listing(ents), items)

\* Line 132 and line 134: the loop runs over the list made once by iterdir.
LoopItems(items, ents) == items

\* Variant: a removal failure ends the loop.
BreakOnError(idx, items, counted) ==
    IF counted = "error" THEN Len(items) + 1 ELSE idx + 1

\* Line 145: continue with the next item of the list.
AfterItem(idx, items, counted) == idx + 1

\* Variant: the difference clamped at 0.
Clamped(initial_size, final_size) ==
    IF initial_size > final_size THEN initial_size - final_size ELSE 0

\* Line 152.
SpaceFreed(initial_size, final_size) == initial_size - final_size

\* Variant: the failure leaves the function.
Propagate == "raise"

\* Lines 147-149: a failure of the enumeration is caught in the function,
\* which returns 0.
OnEnumerationError == "return0"

\* Lines 120-122: a missing path is reported and the function returns 0.
OnMissingPath == "return0"

CleanIdle ==
    [target |-> 0, at |-> "idle", initial_size |-> 0, final_size |-> 0,
     items |-> <<>>, idx |-> 0,
     files_deleted |-> 0, folders_deleted |-> 0, errors |-> 0, skipped |-> 0,
     snap |-> [n \in Names |-> NoEntry], fate |-> [n \in Names |-> "unvisited"],
     added |-> 0, removed |-> 0, late |-> {}]

CleanCall(t) == [CleanIdle EXCEPT !.target = t, !.at = "enter"]

ProbeIdle ==
    [at |-> "idle", total_size |-> 0, filenames |-> <<>>, dirnames |-> <<>>,
     walked |-> FALSE, listed |-> {}, seen |-> <<>>, gone |-> {}, unreadable |-> {}]

(***************************************************************************)
(* The initial states: each directory is missing or holds up to MaxItems   *)
(* entries; main is about to call display_system_info.                     *)
(***************************************************************************)
EmptyDir == [n \in Names |-> NoEntry]

MissingDir == [exists |-> FALSE, ents |-> EmptyDir]

DirOf(s) == [exists |-> TRUE, ents |-> [n \in Names |-> IF n <= Len(s) THEN s[n] ELSE NoEntry]]

InitialDirs ==
    {MissingDir} \cup {DirOf(s) : s \in UNION {[1..k -> Entries] : k \in 0..MaxItems}}

\* MaxItems bounds the entries the two directories hold together.
Init ==
    /\ fs \in {f \in [Targets -> InitialDirs] :
                 Len(Listing(f[USER].ents)) + Len(Listing(f[SYSTEM].ents)) <= MaxItems}
    /\ pc = "sysinfo"
    /\ temp_initial_size = [t \in Targets |-> 0]
    /\ temp_freed = [t \in Targets |-> 0]
    /\ outcome = [t \in Targets |-> "none"]
    /\ clean = CleanIdle
    /\ pending = "none"
    /\ log = <<>>
    /\ lastBars = <<>>
    /\ writes = 0
    /\ probe = ProbeIdle

\* The statements of main's try block, lines 199-237.
TryPcs == {"sysinfo", "measure", "clean", "display", "complete"}

Inputs == {"line", "EOFError", "KeyboardInterrupt"}

(***************************************************************************)
(* main, lines 198-253.                                                    *)
(***************************************************************************)
\* Line 204: display_system_info with what get_disk_usage returns.
DisplaySystemInfo ==
    /\ pc = "sysinfo"
    /\ \E usage \in DiskUsages : lastBars' = display_system_info(usage)
    /\ pc' = "measure"
    /\ UNCHANGED <<fs, temp_initial_size, temp_freed, outcome, clean, pending, log, writes, probe>>

\* Lines 84-92: a KeyboardInterrupt raised inside get_disk_usage is caught by
\* its bare except, which returns zeros.
InterruptInDiskUsage ==
    /\ pc = "sysinfo"
    /\ lastBars' = display_system_info(<<0, 0, 0>>)
    /\ log' = Append(log, "sigint")
    /\ pc' = "measure"
    /\ UNCHANGED <<fs, temp_initial_size, temp_freed, outcome, clean, pending, writes, probe>>

\* Lines 217-226: the initial sizes, then the call for the user directory.
MeasureInitial ==
    /\ pc = "measure"
    /\ temp_initial_size' = [t \in Targets |-> get_folder_size(fs[t])]
    /\ pc' = "clean"
    /\ clean' = CleanCall(USER)
    /\ UNCHANGED <<fs, temp_freed, outcome, pending, log, writes, probe>>
    /\ lastBars' = << >>

\* clean_temp_folder returns 0 (lines 122 and 149), or lets the failure out.
LeaveClean(how, what) ==
    IF how = "return0"
    THEN /\ clean' = [clean EXCEPT !.at = "returned"]
         /\ temp_freed' = [temp_freed EXCEPT ![clean.target] = 0]
         /\ outcome' = [outcome EXCEPT ![clean.target] = what]
         /\ pc' = pc
    ELSE /\ clean' = CleanIdle
         /\ pc' = "except"
         /\ UNCHANGED <<temp_freed, outcome>>

\* Lines 120-129.
CleanEnter ==
    /\ pc = "clean" /\ clean.at = "enter"
    /\ IF ~fs[clean.target].exists
       THEN LeaveClean(OnMissingPath, "missing")
       ELSE /\ clean' = [clean EXCEPT !.at = "list",
                                      !.initial_size = get_folder_size(fs[clean.target])]
            /\ UNCHANGED <<pc, temp_freed, outcome>>
    /\ UNCHANGED <<fs, temp_initial_size, pending, log, writes, probe>>
    /\ lastBars' = << >>

\* Line 132: iterdir lists the children once.
CleanList ==
    /\ pc = "clean" /\ clean.at = "list"
    /\ clean' = [clean EXCEPT !.at = "loop", !.idx = 1,
                              !.items = Listing(fs[clean.target].ents),
                              !.snap = fs[clean.target].ents]
    /\ UNCHANGED <<fs, pc, temp_initial_size, temp_freed, outcome, pending, log, writes, probe>>
    /\ lastBars' = << >>

\* Lines 132, 147-149: iterdir fails.
CleanListFails ==
    /\ pc = "clean" /\ clean.at = "list"
    /\ LeaveClean(OnEnumerationError, "enumfail")
    /\ UNCHANGED <<fs, temp_initial_size, pending, log, writes, probe>>
    /\ lastBars' = << >>

\* Lines 134-145: one pass of the loop.
CleanItem ==
    /\ pc = "clean" /\ clean.at = "loop"
    /\ LET t == clean.target
           its == LoopItems(clean.items, fs[t].ents)
       IN /\ clean.idx <= Len(its)
          /\ LET name == its[clean.idx]
                 e == fs[t].ents[name]
                 r == VisitItem(e)
             IN /\ fs' = [fs EXCEPT ![t].ents[name] = r.left]
                /\ clean' = [clean EXCEPT
                       !.items = its,
                       !.idx = AfterItem(clean.idx, its, r.counted),
                       !.files_deleted = @ + (IF r.counted = "file" THEN 1 ELSE 0),
                       !.folders_deleted = @ + (IF r.counted = "folder" THEN 1 ELSE 0),
                       !.errors = @ + (IF r.counted = "error" THEN 1 ELSE 0),
                       !.skipped = @ + (IF r.counted = "error" THEN 1 ELSE 0),
                       !.fate[name] = r.counted,
                       !.removed = @ + EntrySize(e) - EntrySize(r.left)]
    /\ UNCHANGED <<pc, temp_initial_size, temp_freed, outcome, pending, log, writes, probe>>
    /\ lastBars' = << >>

\* Lines 151-159.
CleanFinish ==
    /\ pc = "clean" /\ clean.at = "loop"
    /\ LET t == clean.target
           final_size == get_folder_size(fs[t])
       IN /\ clean.idx > Len(LoopItems(clean.items, fs[t].ents))
          /\ clean' = [clean EXCEPT !.at = "returned", !.final_size = final_size]
          /\ temp_freed' = [temp_freed EXCEPT ![t] = SpaceFreed(clean.initial_size, final_size)]
          /\ outcome' = [outcome EXCEPT ![t] = "done"]
    /\ UNCHANGED <<fs, pc, temp_initial_size, pending, log, writes, probe>>
    /\ lastBars' = << >>

\* Lines 226-233: after the user directory the system directory, then the report.
AfterClean ==
    /\ pc = "clean" /\ clean.at = "returned"
    /\ IF clean.target = USER
       THEN clean' = CleanCall(SYSTEM) /\ pc' = pc
       ELSE clean' = CleanIdle /\ pc' = "display"
    /\ UNCHANGED <<fs, temp_initial_size, temp_freed, outcome, pending, log, writes, probe>>
    /\ lastBars' = << >>

\* Line 233.
Display ==
    /\ pc = "display"
    /\ lastBars' = display_cleanup_results(temp_freed[USER], temp_freed[SYSTEM],
                                           temp_initial_size[USER], temp_initial_size[SYSTEM])
    /\ log' = Append(log, "report")
    /\ pc' = "complete"
    /\ UNCHANGED <<fs, temp_initial_size, temp_freed, outcome, clean, pending, writes, probe>>

\* Lines 235-237.
Complete ==
    /\ pc = "complete"
    /\ log' = Append(log, "completed")
    /\ pc' = "finally"
    /\ UNCHANGED <<fs, temp_initial_size, temp_freed, outcome, clean, pending, writes, probe>>
    /\ lastBars' = << >>

\* An exception other than KeyboardInterrupt leaves the try block.
Unexpected ==
    /\ pc \in TryPcs
    /\ pc' = "except"
    /\ clean' = CleanIdle
    /\ UNCHANGED <<fs, temp_initial_size, temp_freed, outcome, pending, log, writes, probe>>
    /\ lastBars' = << >>

\* Lines 239-242.
Except ==
    /\ pc = "except"
    /\ log' = log \o <<"error", "trace">>
    /\ pc' = "finally"
    /\ UNCHANGED <<fs, temp_initial_size, temp_freed, outcome, clean, pending, writes, probe>>
    /\ lastBars' = << >>

\* KeyboardInterrupt in the try block or in the handler of line 239: no
\* clause of main catches it and it waits behind the finally block.
Interrupt ==
    /\ pc \in TryPcs \cup {"except"}
    /\ pending' = "KeyboardInterrupt"
    /\ log' = Append(log, "sigint")
    /\ pc' = "finally"
    /\ clean' = CleanIdle
    /\ UNCHANGED <<fs, temp_initial_size, temp_freed, outcome, writes, probe>>
    /\ lastBars' = << >>

\* What input() adds to the log.
Answer(r) ==
    IF r = "line" THEN <<"ack">> ELSE IF r = "KeyboardInterrupt" THEN <<"sigint">> ELSE << >>

\* The end of the finally block: the waiting exception goes on to the
\* handlers of lines 258 and 265, or main returns.
AfterFinally(exc) ==
    IF exc = "none" THEN "done"
    ELSE IF exc = "KeyboardInterrupt" THEN "cancelled" ELSE "critical"

\* Lines 244-249: the prompt and input(); the bare except catches whatever
\* input() raises.
Finally ==
    /\ pc = "finally"
    /\ \E r \in Inputs :
          /\ log' = log \o <<"prompt">> \o Answer(r)
          /\ pc' = IF r = "line" THEN AfterFinally(pending) ELSE "fallback"
    /\ UNCHANGED <<fs, temp_initial_size, temp_freed, outcome, clean, pending, writes, probe>>
    /\ lastBars' = << >>

\* Lines 251-253: msvcrt exists on Windows only; elsewhere the import raises
\* ImportError out of the finally block.
Fallback ==
    /\ pc = "fallback"
    /\ \E msvcrt \in BOOLEAN :
          IF msvcrt
          THEN /\ log' = log \o <<"anykey", "ack">>
               /\ pc' = AfterFinally(pending)
               /\ UNCHANGED pending
          ELSE /\ pending' = "ImportError"
               /\ pc' = "critical"
               /\ UNCHANGED log
    /\ UNCHANGED <<fs, temp_initial_size, temp_freed, outcome, clean, writes, probe>>
    /\ lastBars' = << >>

\* Lines 258-264.
Cancelled ==
    /\ pc = "cancelled"
    /\ \E r \in Inputs : log' = log \o <<"notice", "prompt">> \o Answer(r)
    /\ pc' = "done"
    /\ pending' = "none"
    /\ UNCHANGED <<fs, temp_initial_size, temp_freed, outcome, clean, writes, probe>>
    /\ lastBars' = << >>

\* Lines 265-273.
Critical ==
    /\ pc = "critical"
    /\ \E r \in Inputs : log' = log \o <<"critical", "trace", "prompt">> \o Answer(r)
    /\ pc' = "done"
    /\ pending' = "none"
    /\ UNCHANGED <<fs, temp_initial_size, temp_freed, outcome, clean, writes, probe>>
    /\ lastBars' = << >>

(***************************************************************************)
(* Another process creates a file in one of the directories, at any point  *)
(* between main's first measurement and its report.  (A file created       *)
(* before the first measurement is part of another initial directory; one  *)
(* created after the last measurement is seen by nothing.)                 *)
(***************************************************************************)
CreatedFiles == {e \in FileEntries : e.st = "ok"}

WriterCreate ==
    /\ pc = "clean"
    /\ writes < MaxWrites
    /\ \E t \in Targets, e \in CreatedFiles :
          LET name == MaxItems + writes + 1
              during == pc = "clean" /\ clean.target = t
          IN /\ fs[t].exists
             /\ fs' = [fs EXCEPT ![t].ents[name] = e]
             /\ clean' = IF during
                         THEN [clean EXCEPT
                                 !.added = @ + (IF clean.at \in {"list", "loop"} THEN e.size ELSE 0),
                                 !.late = @ \cup (IF clean.at \in {"loop", "returned"} THEN {name} ELSE {})]
                         ELSE clean
    /\ writes' = writes + 1
    /\ UNCHANGED <<pc, temp_initial_size, temp_freed, outcome, pending, log, lastBars, probe>>

(***************************************************************************)
(* Spec: the runs in which nothing is raised into main's try block.        *)
(* FaultSpec: the runs in which an unexpected exception or a               *)
(* KeyboardInterrupt may be raised at any statement of the try block.      *)
(***************************************************************************)
Program ==
    \/ DisplaySystemInfo \/ MeasureInitial
    \/ CleanEnter \/ CleanList \/ CleanListFails \/ CleanItem \/ CleanFinish \/ AfterClean
    \/ Display \/ Complete
    \/ Finally \/ Fallback \/ Critical

Next == Program \/ WriterCreate

Spec == Init /\ [][Next]_vars

FaultNext ==
    \/ Next
    \/ InterruptInDiskUsage \/ Unexpected \/ Except \/ Interrupt \/ Cancelled

FaultSpec == Init /\ [][FaultNext]_vars

(***************************************************************************)
(* get_folder_size taken one lookup at a time, lines 29-47, while other    *)
(* processes delete files or make them unreadable.  A file is <<n, 0>>     *)
(* (the top-level entry n) or <<n, i>> (file i of the directory n).        *)
(***************************************************************************)
FileIds(ents) ==
    {<<n, 0>> : n \in {m \in Names : ents[m].kind # "none"}} \cup
    UNION {{<<n, i>> : i \in 1..Len(ents[n].kids)} : n \in Names}

SizeOfId(ents, id) ==
    IF id[2] = 0 THEN ents[id[1]].size ELSE ents[id[1]].kids[id[2]].size

\* os.path.exists(filepath), line 40.
ExistsNow(ents, gone, id) ==
    /\ id \notin gone
    /\ <<id[1], 0>> \notin gone
    /\ ents[id[1]].kind # "brokenlink"

RECURSIVE Keep(_, _)
Keep(ids, gone) ==
    IF ids = <<>> THEN <<>>
    ELSE (IF Head(ids) \in gone THEN <<>> ELSE <<Head(ids)>>) \o Keep(Tail(ids), gone)

RECURSIVE TopIds(_, _, _)
TopIds(ents, names, kinds) ==
    IF names = <<>> THEN <<>>
    ELSE (IF ents[Head(names)].kind \in kinds THEN <<(<<Head(names), 0>>)>> ELSE <<>>)
         \o TopIds(ents, Tail(names), kinds)

KidIds(ents, n) == [i \in 1..Len(ents[n].kids) |-> <<n, i>>]

SeqSet(s) == {s[i] : i \in 1..Len(s)}

\* Variant: a lookup that fails ends the walk of the directory.
StopOnFailure(filenames, ok) == IF ok THEN Tail(filenames) ELSE <<>>

\* Lines 42-43: after a lookup that fails the loop goes on with the next file.
AfterLookup(filenames, ok) == Tail(filenames)

\* Lines 32-36: a missing path returns 0; os.walk yields the root with the
\* non-directories in filenames and the directories in dirnames.  A root that
\* cannot be listed yields nothing (os.walk ignores the error).
ProbeStart ==
    /\ pc = "probe" /\ probe.at = "start"
    /\ LET d == fs[USER]
       IN IF ~d.exists
          THEN probe' = [probe EXCEPT !.at = "done"]
          ELSE \E listable \in BOOLEAN :
                 IF listable
                 THEN LET files == Keep(TopIds(d.ents, Listing(d.ents), {"file", "brokenlink"}), probe.gone)
                          dirs == Keep(TopIds(d.ents, Listing(d.ents), {"dir", "dirlink"}), probe.gone)
                      IN probe' = [probe EXCEPT !.at = "walk", !.walked = TRUE,
                                                !.filenames = files, !.dirnames = dirs,
                                                !.listed = SeqSet(files)]
                 ELSE probe' = [probe EXCEPT !.at = "done"]
    /\ UNCHANGED <<fs, pc, temp_initial_size, temp_freed, outcome, clean, pending, log, lastBars, writes>>

\* Lines 37-43: one file of filenames.
ProbeFile ==
    /\ pc = "probe" /\ probe.at = "walk" /\ probe.filenames # <<>>
    /\ LET id == Head(probe.filenames)
           ents == fs[USER].ents
           present == ExistsNow(ents, probe.gone, id)
           readable == id \notin probe.unreadable
           size == SizeOfId(ents, id)
       IN probe' = [probe EXCEPT
              !.total_size = @ + FileContribution(present, readable, size),
              !.filenames = AfterLookup(@, present /\ readable),
              !.seen = Append(@, [id |-> id, size |-> size, ok |-> present /\ readable])]
    /\ UNCHANGED <<fs, pc, temp_initial_size, temp_freed, outcome, clean, pending, log, lastBars, writes>>

\* Line 36: os.walk goes on to the next directory of dirnames; it does not
\* follow a link and it yields nothing for a directory that is gone.
ProbeDescend ==
    /\ pc = "probe" /\ probe.at = "walk" /\ probe.filenames = <<>> /\ probe.dirnames # <<>>
    /\ LET id == Head(probe.dirnames)
           ents == fs[USER].ents
           files == IF ents[id[1]].kind = "dirlink" \/ id \in probe.gone
                    THEN <<>>
                    ELSE Keep(KidIds(ents, id[1]), probe.gone)
       IN probe' = [probe EXCEPT !.filenames = files, !.dirnames = Tail(@),
                                 !.listed = @ \cup SeqSet(files)]
    /\ UNCHANGED <<fs, pc, temp_initial_size, temp_freed, outcome, clean, pending, log, lastBars, writes>>

\* Line 47.
ProbeReturn ==
    /\ pc = "probe" /\ probe.at = "walk" /\ probe.filenames = <<>> /\ probe.dirnames = <<>>
    /\ probe' = [probe EXCEPT !.at = "done"]
    /\ UNCHANGED <<fs, pc, temp_initial_size, temp_freed, outcome, clean, pending, log, lastBars, writes>>

\* The files and directories the walk has not looked at yet; a change to one
\* it has passed is not seen by it.
Ahead ==
    FileIds(fs[USER].ents)
        \ ({probe.seen[i].id : i \in 1..Len(probe.seen)} \cup probe.gone \cup probe.unreadable)

\* Another process deletes a file or a directory.
ProbeVanish ==
    /\ pc = "probe" /\ probe.at \in {"start", "walk"}
    /\ \E id \in Ahead :
          probe' = [probe EXCEPT !.gone = @ \cup {id}]
    /\ UNCHANGED <<fs, pc, temp_initial_size, temp_freed, outcome, clean, pending, log, lastBars, writes>>

\* Another process makes a file unreadable.
ProbeUnreadable ==
    /\ pc = "probe" /\ probe.at \in {"start", "walk"}
    /\ \E id \in {a \in Ahead : a[2] > 0 \/ fs[USER].ents[a[1]].kind = "file"} :
          probe' = [probe EXCEPT !.unreadable = @ \cup {id}]
    /\ UNCHANGED <<fs, pc, temp_initial_size, temp_freed, outcome, clean, pending, log, lastBars, writes>>

ProbeInit ==
    /\ fs \in {f \in [Targets -> InitialDirs] :
                 f[SYSTEM] = MissingDir /\ Len(Listing(f[USER].ents)) <= MaxItems}
    /\ pc = "probe"
    /\ temp_initial_size = [t \in Targets |-> 0]
    /\ temp_freed = [t \in Targets |-> 0]
    /\ outcome = [t \in Targets |-> "none"]
    /\ clean = CleanIdle
    /\ pending = "none"
    /\ log = <<>>
    /\ lastBars = <<>>
    /\ writes = 0
    /\ probe = [ProbeIdle EXCEPT !.at = "start"]

ProbeNext ==
    \/ ProbeStart \/ ProbeFile \/ ProbeDescend \/ ProbeReturn
    \/ ProbeVanish \/ ProbeUnreadable

ProbeSpec == ProbeInit /\ [][ProbeNext]_vars

(***************************************************************************)
(* Properties.                                                             *)
(***************************************************************************)
Returned == pc = "clean" /\ clean.at = "returned" /\ outcome[clean.target] = "done"

Snapshot == SeqSet(clean.items)

\* Removing the entry fails: a locked file, or a directory with a locked file.
Fails(e) ==
    \/ e.kind = "file" /\ e.st = "locked"
    \/ e.kind = "dir" /\ \E i \in 1..Len(e.kids) : e.kids[i].st = "locked"

Failing == {n \in Snapshot : Fails(clean.snap[n])}

OfKind(k) == {n \in Snapshot : clean.snap[n].kind = k}

Count(s, x) == Cardinality({i \in 1..Len(s) : s[i] = x})

\* C1: a removal failure on one item never aborts the batch.  When the call
\* returns, errors is the number of snapshot items whose removal failed, and
\* every other file or directory of the snapshot is gone from the directory
\* and counted as a deleted file or folder.
C1_FailureDoesNotAbortBatch ==
    Returned =>
        /\ clean.errors = Cardinality(Failing)
        /\ \A n \in Failing : clean.fate[n] = "error"
        /\ \A n \in OfKind("file") \ Failing :
               fs[clean.target].ents[n] = NoEntry /\ clean.fate[n] = "file"
        /\ \A n \in OfKind("dir") \ Failing :
               fs[clean.target].ents[n] = NoEntry /\ clean.fate[n] = "folder"
        /\ clean.files_deleted = Cardinality(OfKind("file") \ Failing)

C1_Witness ==
    /\ Returned
    /\ clean.errors = 1
    /\ clean.files_deleted + clean.folders_deleted = 1
    /\ clean.items # <<>> /\ Fails(clean.snap[clean.items[1]])

\* C2: a directory whose children are f regular files and d directories, all
\* removable, with no other process writing during the call, is left without
\* children, with files_deleted = f, folders_deleted = d and errors = 0.
AllRemovable ==
    /\ Snapshot = OfKind("file") \cup OfKind("dir")
    /\ Failing = {}
    /\ clean.added = 0 /\ clean.late = {}

C2_RemovableDirectoryEmptied ==
    (Returned /\ AllRemovable) =>
        /\ Listing(fs[clean.target].ents) = <<>>
        /\ clean.files_deleted = Cardinality(OfKind("file"))
        /\ clean.folders_deleted = Cardinality(OfKind("dir"))
        /\ clean.errors = 0

C2_Witness ==
    /\ Returned /\ AllRemovable
    /\ clean.files_deleted = 1 /\ clean.folders_deleted = 1
    /\ \E n \in OfKind("dir") :
          clean.snap[n].kids # <<>> /\ clean.snap[n].kids[1].st = "readonly"

\* C3: every snapshot item is either removed and counted as a deleted file or
\* folder, or reported as skipped and counted in errors, so that after the
\* loop files_deleted + folders_deleted + errors is the number of snapshot
\* items.
C3_EveryItemCounted ==
    Returned =>
        /\ clean.files_deleted + clean.folders_deleted + clean.errors = Len(clean.items)
        /\ clean.skipped = clean.errors
        /\ \A n \in Snapshot :
              \/ clean.fate[n] = "error"
              \/ clean.fate[n] \in {"file", "folder"} /\ fs[clean.target].ents[n] = NoEntry

\* C4: the call returns size_before - size_after, not clamped: negative when
\* other processes added more bytes between the two measurements than the
\* call removed, and not negative when no other process wrote.
C4_FreedIsUnclampedDifference ==
    Returned =>
        /\ temp_freed[clean.target] = clean.initial_size - clean.final_size
        /\ temp_freed[clean.target] = clean.removed - clean.added
        /\ clean.added > clean.removed => temp_freed[clean.target] < 0
        /\ clean.added = 0 => temp_freed[clean.target] >= 0

C4_Witness ==
    /\ Returned
    /\ clean.removed > 0
    /\ clean.added > clean.removed
    /\ temp_freed[clean.target] < 0

\* C5: the children are listed once, before any removal, and only that list
\* is iterated: an item created after the listing is never visited, never
\* removed and never counted.
C5_SnapshotIsFixed ==
    (pc = "clean" /\ clean.at \in {"loop", "returned"}) =>
        /\ clean.items = Listing(clean.snap)
        /\ clean.files_deleted + clean.folders_deleted + clean.errors <= Len(Listing(clean.snap))
        /\ \A n \in clean.late :
              /\ n \notin Snapshot
              /\ clean.fate[n] = "unvisited"
              /\ fs[clean.target].ents[n] # NoEntry

C5_Witness ==
    /\ Returned
    /\ clean.late # {} /\ clean.added > 0
    /\ clean.files_deleted >= 1

\* C6: a failure confined to one target never aborts the run.  A call that
\* ends in a missing target or a failed enumeration returns 0; main goes on
\* to the second target and to display_cleanup_results whatever the first
\* call met, and stops only at its end.
AfterReport == {"complete", "finally", "fallback", "critical", "done"}

C6_TargetFailureContained ==
    /\ \A t \in Targets : outcome[t] \in {"missing", "enumfail"} => temp_freed[t] = 0
    /\ pc \in {"display"} \cup AfterReport =>
           outcome[USER] # "none" /\ outcome[SYSTEM] # "none"
    /\ pc \in AfterReport => Count(log, "report") = 1
    /\ pc = "done" \/ ENABLED Program

C6_Witness ==
    /\ pc = "done"
    /\ outcome[USER] = "enumfail"
    /\ outcome[SYSTEM] = "done"
    /\ Count(log, "report") = 1

\* C7: a run that is not interrupted waits for an acknowledgment exactly once
\* before it ends, after the completion message or after the error message
\* and trace.
AckAfter(msg) ==
    \E i, j \in 1..Len(log) : i < j /\ log[i] = msg /\ log[j] = "ack"

C7_WaitsExactlyOnce ==
    (pc = "done" /\ Count(log, "sigint") = 0) =>
        /\ Count(log, "ack") = 1
        /\ AckAfter("completed") \/ AckAfter("trace")

\* C8: on every interrupted run the cancellation notice is printed.
C8_NoticeOnEveryInterrupt ==
    (pc = "done" /\ Count(log, "sigint") > 0) => Count(log, "notice") = 1

\* C9: every progress bar printed is bounded to its width: the filled length
\* lies in 0..width and filled glyphs plus empty glyphs are exactly width.
C9_BarsWithinWidth ==
    \A i \in 1..Len(lastBars) :
        /\ lastBars[i].filled_width \in 0..lastBars[i].width
        /\ lastBars[i].filled + lastBars[i].empty = lastBars[i].width

\* C10: get_folder_size returns a total that is not negative: 0 for a missing
\* path, otherwise the sum of the sizes of the enumerated files that exist
\* and are readable when looked up; a file that fails contributes 0 and the
\* walk goes on with the files that remain.
RECURSIVE SumOk(_)
SumOk(seen) ==
    IF seen = <<>> THEN 0
    ELSE (IF Head(seen).ok THEN Head(seen).size ELSE 0) + SumOk(Tail(seen))

C10_SizeProbeBestEffort ==
    probe.at = "done" =>
        /\ probe.total_size >= 0
        /\ ~fs[USER].exists => probe.total_size = 0
        /\ probe.total_size = SumOk(probe.seen)
        /\ {probe.seen[i].id : i \in 1..Len(probe.seen)} = probe.listed
        /\ Len(probe.seen) = Cardinality(probe.listed)
        /\ (probe.walked /\ probe.gone = {} /\ probe.unreadable = {}) =>
               probe.total_size = get_folder_size(fs[USER])

C10_Witness ==
    /\ probe.at = "done"
    /\ Len(probe.seen) >= 2
    /\ ~probe.seen[1].ok /\ probe.seen[2].ok
    /\ probe.total_size > 0

====
